---- MODULE Spec2Model ----
(***************************************************************************)
(* LegacyLocalCacheRepository: a named, process-local key-value cache in   *)
(* front of LocalCacheHelper, with a whole-store reset timer chosen by a   *)
(* CachePolicy.  Every public member of the class is one action; the       *)
(* setInterval callback is the action Tick.  JavaScript runs each of them  *)
(* to completion, so each is one atomic step.                              *)
(***************************************************************************)
EXTENDS Integers, Sequences, FiniteSets, TLC

(* The instances of the model, numbered in the order of their construction, *)
(* the keys their callers use and the store names they are constructed     *)
(* with.                                                                   *)
NumKeys == 2
KeyNames == <<"k1", "k2", "k3">>
Keys == {KeyNames[i] : i \in 1..NumKeys}
Repos == {1, 2}
Names == {"A"}

(***************************************************************************)
(* JavaScript values.  A string is its sequence of characters.             *)
(***************************************************************************)
Str(s) == [t |-> "string", s |-> s, n |-> 0]
Num(n) == [t |-> "number", s |-> <<>>, n |-> n]
Null == [t |-> "null", s |-> <<>>, n |-> 0]
NaN == [t |-> "NaN", s |-> <<>>, n |-> 0]

Digits == <<"0", "1", "2", "3", "4", "5", "6", "7", "8", "9">>
Quote == "\""

IsDigit(c) == \E d \in 1..10 : Digits[d] = c
DigitVal(c) == (CHOOSE d \in 1..10 : Digits[d] = c) - 1

RECURSIVE DigitsVal(_)
DigitsVal(s) ==
    IF s = <<>> THEN 0
    ELSE 10 * DigitsVal(SubSeq(s, 1, Len(s) - 1)) + DigitVal(s[Len(s)])

RECURSIVE DigitsOf(_)
DigitsOf(n) ==
    IF n < 10 THEN <<Digits[n + 1]>>
    ELSE Append(DigitsOf(n \div 10), Digits[(n % 10) + 1])

(* Number.prototype.toString for the integers of the model. *)
NumberToString(n) == IF n < 0 THEN <<"-">> \o DigitsOf(0 - n) ELSE DigitsOf(n)

(* The JSON grammar restricted to the characters of the model: an integer  *)
(* literal, with an optional minus sign and without a leading zero, a      *)
(* quoted string without quotes inside, or null.  Anything else makes      *)
(* JSON.parse throw.                                                       *)
Unsigned(s) == IF s # <<>> /\ s[1] = "-" THEN Tail(s) ELSE s
IsJsonNumber(s) ==
    /\ Len(Unsigned(s)) > 0
    /\ \A i \in 1..Len(Unsigned(s)) : IsDigit(Unsigned(s)[i])
    /\ (Len(Unsigned(s)) > 1 => Unsigned(s)[1] # "0")
IsJsonString(s) ==
    /\ Len(s) >= 2
    /\ s[1] = Quote
    /\ s[Len(s)] = Quote
    /\ \A i \in 2..(Len(s) - 1) : s[i] # Quote
IsJsonNull(s) == s = <<"n", "u", "l", "l">>

JSONParses(s) == IsJsonNumber(s) \/ IsJsonString(s) \/ IsJsonNull(s)
JSONParse(s) ==
    IF IsJsonNumber(s)
    THEN IF s[1] = "-" THEN Num(0 - DigitsVal(Unsigned(s))) ELSE Num(DigitsVal(s))
    ELSE IF IsJsonString(s) THEN Str(SubSeq(s, 2, Len(s) - 1))
    ELSE Null

JSONStringify(v) ==
    IF v.t = "string" THEN <<Quote>> \o v.s \o <<Quote>>
    ELSE IF v.t = "number" THEN NumberToString(v.n)
    ELSE <<"n", "u", "l", "l">>

(* parseFloat: the longest prefix of digits, NaN when there is none. *)
RECURSIVE DigitPrefix(_)
DigitPrefix(s) ==
    IF s = <<>> \/ ~IsDigit(s[1]) THEN <<>>
    ELSE <<s[1]>> \o DigitPrefix(Tail(s))
ParseFloat(s) == IF DigitPrefix(s) = <<>> THEN NaN ELSE Num(DigitsVal(DigitPrefix(s)))

(* The inputs the callers of the model pass. *)
StringInputs == {<<"a">>, <<"1">>}
JsonInputs == {Str(<<"a">>), Num(1)}
NumberInputs == {1}

(***************************************************************************)
(* CachePolicy, by the names of its members; "Unrecognized" stands for any *)
(* value outside the enumeration.                                          *)
(***************************************************************************)
FinitePolicies ==
    {"StaleAfterFiveSeconds", "StaleAfterTenSeconds", "SateAfterThirtySeconds",
     "StaleAfterOneMinute", "StaleAfterTwoMinutes", "StaleAfterFiveMinutes",
     "StaleAfterTenMinutes", "StaleAfterFifteenMinutes", "StateAfterThirtyMinutes",
     "StaleAfterOneHour"}
EnumeratedPolicies == {"DoNotCache", "NoReset"} \cup FinitePolicies
CachePolicy == EnumeratedPolicies \cup {"Unrecognized"}

(* The policies the constructors of the model are called with. *)
PolicyInputs ==
    {"DoNotCache", "NoReset", "StaleAfterFiveSeconds", "Unrecognized"}

(* The resolver with a fall-through that yields the never sentinel. *)
CalculateResetMsForStatePolicy_FallsToNever(policy) ==
    CASE policy = "DoNotCache" -> Null
      [] policy = "NoReset" -> Num(-1)
      [] policy = "StaleAfterFiveSeconds" -> Num(5000)
      [] policy = "StaleAfterTenSeconds" -> Num(10000)
      [] policy = "SateAfterThirtySeconds" -> Num(30000)
      [] policy = "StaleAfterOneMinute" -> Num(60000)
      [] policy = "StaleAfterTwoMinutes" -> Num(120000)
      [] policy = "StaleAfterFiveMinutes" -> Num(300000)
      [] policy = "StaleAfterTenMinutes" -> Num(600000)
      [] policy = "StaleAfterFifteenMinutes" -> Num(900000)
      [] policy = "StateAfterThirtyMinutes" -> Num(1800000)
      [] policy = "StaleAfterOneHour" -> Num(3600000)
      [] OTHER -> Num(-1)

(* The resolver with the thirty-minute interval one digit short. *)
CalculateResetMsForStatePolicy_ShortThirtyMinutes(policy) ==
    CASE policy = "DoNotCache" -> Null
      [] policy = "NoReset" -> Num(-1)
      [] policy = "StaleAfterFiveSeconds" -> Num(5000)
      [] policy = "StaleAfterTenSeconds" -> Num(10000)
      [] policy = "SateAfterThirtySeconds" -> Num(30000)
      [] policy = "StaleAfterOneMinute" -> Num(60000)
      [] policy = "StaleAfterTwoMinutes" -> Num(120000)
      [] policy = "StaleAfterFiveMinutes" -> Num(300000)
      [] policy = "StaleAfterTenMinutes" -> Num(600000)
      [] policy = "StaleAfterFifteenMinutes" -> Num(900000)
      [] policy = "StateAfterThirtyMinutes" -> Num(180000)
      [] policy = "StaleAfterOneHour" -> Num(3600000)
      [] OTHER -> Null

CalculateResetMsForStatePolicy(policy) ==
    CASE policy = "DoNotCache" -> Null
      [] policy = "NoReset" -> Num(-1)
      [] policy = "StaleAfterFiveSeconds" -> Num(5000)
      [] policy = "StaleAfterTenSeconds" -> Num(10000)
      [] policy = "SateAfterThirtySeconds" -> Num(30000)
      [] policy = "StaleAfterOneMinute" -> Num(60000)
      [] policy = "StaleAfterTwoMinutes" -> Num(120000)
      [] policy = "StaleAfterFiveMinutes" -> Num(300000)
      [] policy = "StaleAfterTenMinutes" -> Num(600000)
      [] policy = "StaleAfterFifteenMinutes" -> Num(900000)
      [] policy = "StateAfterThirtyMinutes" -> Num(1800000)
      [] policy = "StaleAfterOneHour" -> Num(3600000)
      [] OTHER -> Null

(***************************************************************************)
(* LocalCacheHelper: the registry of named stores.  cache maps each        *)
(* registered name to its store, a function from the keys present to their *)
(* raw strings.                                                            *)
(***************************************************************************)
EmptyStore == [k \in {} |-> <<>>]

RegisterLocalCacheStore(cache, name) ==
    IF name \in DOMAIN cache THEN cache
    ELSE [n \in (DOMAIN cache) \cup {name} |-> IF n = name THEN EmptyStore ELSE cache[n]]

GetLocalCacheSize(cache, name) == Cardinality(DOMAIN cache[name])

ClearLocalCacheStore(cache, name) == [cache EXCEPT ![name] = EmptyStore]

GetAllLocalCacheValues(cache, name) == cache[name]

GetLocalCacheValue(cache, name, key) ==
    IF key \in DOMAIN cache[name] THEN <<TRUE, Str(cache[name][key])>> ELSE <<FALSE, Null>>

SetLocalCachedValue(cache, name, key, value) ==
    [cache EXCEPT ![name] =
        [k \in (DOMAIN @) \cup {key} |-> IF k = key THEN value ELSE @[k]]]

DeleteLocalCachedValue(cache, name, key) ==
    [cache EXCEPT ![name] = [k \in (DOMAIN @) \ {key} |-> @[k]]]

(* Set echoes the stored value. *)
SetLocalCachedValueReturn(cache, name, key, value) == Str(value)


(***************************************************************************)
(* State.  cache is LocalCacheHelper's registry.  The other variables are  *)
(* the fields of each LegacyLocalCacheRepository instance, by instance;    *)
(* timers[r] counts the interval timers the instance has handed to the     *)
(* event loop (nothing in the class ever calls clearInterval), and         *)
(* _CacheRefreshIntervalTimer[r] is the handle the instance holds:         *)
(* "undefined" before setInterval, then "ref", and "unref" once unref()    *)
(* was called on it.                                                       *)
(*                                                                         *)
(* Two history variables observe the run: policy[r] is the policy the     *)
(* constructor of r was called with, and last is the latest call with what *)
(* it found and what it returned.                                          *)
(*                                                                         *)
(* running[r] is the activation of the timer callback or of a              *)
(* get-or-populate of r that has made its first call of LocalCacheHelper   *)
(* and not yet its second, with the locals it holds; it is NoFrame         *)
(* wherever the members are taken as single steps.                         *)
(***************************************************************************)
VARIABLES cache, constructed, _Name, _DoNotCache, WasRegisteredForCacheReset,
          _CacheRefreshIntervalTimer, timers, policy, last, running

repoVars == <<constructed, _Name, _DoNotCache, WasRegisteredForCacheReset,
              _CacheRefreshIntervalTimer, timers, policy, running>>
vars == <<cache, constructed, _Name, _DoNotCache, WasRegisteredForCacheReset,
          _CacheRefreshIntervalTimer, timers, policy, last, running>>

GetOps == {"GetCachedValue", "GetCachedValueJson", "GetCachedValueNumber"}
SetOps == {"SetCachedValue", "SetCachedValueJson", "SetCachedValueNumber"}
PopulateOps == {"GetCachedValueOrCacheNewValue", "GetCachedValueOrCacheNewValueJson"}
AccessorOps == GetOps \cup SetOps \cup PopulateOps
BulkOps == {"IsCacheClear", "Clear", "GetAllCachedValues", "RemoveKey"}

(* The record of one call: its receiver and arguments, the registry it     *)
(* found (before), the value it returned (found is the boolean of a        *)
(* [bool, value] pair, the boolean result of IsCacheClear, or              *)
(* presentInCache of a get-or-populate), the LocalCacheHelper calls it     *)
(* issued, each with the store name it passed, and the mapping             *)
(* GetAllCachedValues returned.                                            *)
Call(op, r, key, arg, flag, pol, found, ret, calls, all) ==
    [op |-> op, repo |-> r, key |-> key, arg |-> arg, flag |-> flag,
     policy |-> pol, found |-> found, ret |-> ret, calls |-> calls,
     all |-> all, before |-> cache]

NoCall ==
    [op |-> "none", repo |-> 0, key |-> "", arg |-> Null, flag |-> FALSE,
     policy |-> "", found |-> FALSE, ret |-> Null, calls |-> {},
     all |-> EmptyStore, before |-> [n \in {} |-> EmptyStore]]

(* The activation records: cacheStoreSize of the callback, and key, value  *)
(* and [presentInCache, cachedValue] of GetCachedValueOrCacheNewValue.     *)
Frame(pc, key, value, cacheStoreSize, presentInCache, cachedValue) ==
    [pc |-> pc, key |-> key, value |-> value, cacheStoreSize |-> cacheStoreSize,
     presentInCache |-> presentInCache, cachedValue |-> cachedValue]
NoFrame == Frame("idle", "", Null, 0, FALSE, Null)

Init ==
    /\ running = [r \in Repos |-> NoFrame]
    /\ cache = [n \in {} |-> EmptyStore]
    /\ constructed = [r \in Repos |-> FALSE]
    /\ _Name = [r \in Repos |-> ""]
    /\ _DoNotCache = [r \in Repos |-> FALSE]
    /\ WasRegisteredForCacheReset = [r \in Repos |-> FALSE]
    /\ _CacheRefreshIntervalTimer = [r \in Repos |-> "undefined"]
    /\ timers = [r \in Repos |-> 0]
    /\ policy = [r \in Repos |-> ""]
    /\ last = NoCall

(***************************************************************************)
(* The methods, as functions of the registry c they find.  Each yields the *)
(* registry it leaves, what it returns, and the helper calls it made.      *)
(***************************************************************************)
Result(c, found, ret, calls) == [cache |-> c, found |-> found, ret |-> ret, calls |-> calls]

(* GetCachedValue without its _DoNotCache test. *)
GetCachedValue_IgnoresDoNotCache(c, r, key) ==
    LET res == GetLocalCacheValue(c, _Name[r], key)
        calls == {<<"GetLocalCacheValue", _Name[r]>>}
    IN  IF res[1] THEN Result(c, TRUE, res[2], calls)
        ELSE Result(c, FALSE, Null, calls)

GetCachedValue(c, r, key) ==
    IF _DoNotCache[r] THEN Result(c, FALSE, Null, {})
    ELSE LET res == GetLocalCacheValue(c, _Name[r], key)
             calls == {<<"GetLocalCacheValue", _Name[r]>>}
         IN  IF res[1] THEN Result(c, TRUE, res[2], calls)
             ELSE Result(c, FALSE, Null, calls)

(* GetCachedValueJson that reports a miss on every parse failure. *)
GetCachedValueJson_IgnoresFlag(c, r, key, returnTrueValueIfParseFail) ==
    IF _DoNotCache[r] THEN Result(c, FALSE, Null, {})
    ELSE LET res == GetLocalCacheValue(c, _Name[r], key)
             calls == {<<"GetLocalCacheValue", _Name[r]>>}
         IN  IF res[1] /\ JSONParses(res[2].s)
             THEN Result(c, TRUE, JSONParse(res[2].s), calls)
             ELSE Result(c, FALSE, Null, calls)

GetCachedValueJson(c, r, key, returnTrueValueIfParseFail) ==
    IF _DoNotCache[r] THEN Result(c, FALSE, Null, {})
    ELSE LET res == GetLocalCacheValue(c, _Name[r], key)
             calls == {<<"GetLocalCacheValue", _Name[r]>>}
         IN  IF res[1]
             THEN IF JSONParses(res[2].s) THEN Result(c, TRUE, JSONParse(res[2].s), calls)
                  ELSE IF returnTrueValueIfParseFail THEN Result(c, TRUE, res[2], calls)
                  ELSE Result(c, FALSE, Null, calls)
             ELSE Result(c, FALSE, Null, calls)

GetCachedValueNumber(c, r, key, returnTrueValueIfParseFail) ==
    IF _DoNotCache[r] THEN Result(c, FALSE, Null, {})
    ELSE LET res == GetLocalCacheValue(c, _Name[r], key)
             calls == {<<"GetLocalCacheValue", _Name[r]>>}
         IN  IF res[1]
             THEN LET val == ParseFloat(res[2].s)
                  IN  IF val = NaN
                      THEN IF returnTrueValueIfParseFail THEN Result(c, TRUE, res[2], calls)
                           ELSE Result(c, FALSE, Null, calls)
                      ELSE Result(c, TRUE, val, calls)
             ELSE Result(c, FALSE, Null, calls)

(* SetCachedValue that echoes the value without handing it to the store. *)
SetCachedValue_DoesNotStore(c, r, key, value) ==
    IF _DoNotCache[r] THEN Result(c, FALSE, Null, {})
    ELSE Result(c, FALSE, value, {})

SetCachedValue(c, r, key, value) ==
    IF _DoNotCache[r] THEN Result(c, FALSE, Null, {})
    ELSE Result(SetLocalCachedValue(c, _Name[r], key, value.s), FALSE,
                SetLocalCachedValueReturn(c, _Name[r], key, value.s),
                {<<"SetLocalCachedValue", _Name[r]>>})

(* SetCachedValueJson that hands a string to the store as it is. *)
SetCachedValueJson_StoresRaw(c, r, key, value) ==
    IF _DoNotCache[r] THEN Result(c, FALSE, Null, {})
    ELSE Result(SetLocalCachedValue(c, _Name[r], key,
                    IF value.t = "string" THEN value.s ELSE JSONStringify(value)),
                FALSE, value, {<<"SetLocalCachedValue", _Name[r]>>})

(* SetCachedValueJson without its _DoNotCache test. *)
SetCachedValueJson_IgnoresDoNotCache(c, r, key, value) ==
    Result(SetLocalCachedValue(c, _Name[r], key, JSONStringify(value)), FALSE,
           value, {<<"SetLocalCachedValue", _Name[r]>>})

SetCachedValueJson(c, r, key, value) ==
    IF _DoNotCache[r] THEN Result(c, FALSE, Null, {})
    ELSE Result(SetLocalCachedValue(c, _Name[r], key, JSONStringify(value)), FALSE,
                value, {<<"SetLocalCachedValue", _Name[r]>>})

SetCachedValueNumber(c, r, key, value) ==
    IF _DoNotCache[r] THEN Result(c, FALSE, Null, {})
    ELSE Result(SetLocalCachedValue(c, _Name[r], key, NumberToString(value.n)), FALSE,
                value, {<<"SetLocalCachedValue", _Name[r]>>})

(* Get-or-populate that writes the supplied value on a hit as well. *)
GetCachedValueOrCacheNewValue_AlwaysSets(c, r, key, value) ==
    LET got == GetCachedValue(c, r, key)
        set == SetCachedValue(got.cache, r, key, value)
    IN  Result(set.cache, got.found, set.ret, got.calls \cup set.calls)

GetCachedValueOrCacheNewValue(c, r, key, value) ==
    LET got == GetCachedValue(c, r, key)
    IN  IF got.found THEN Result(got.cache, TRUE, got.ret, got.calls)
        ELSE LET set == SetCachedValue(got.cache, r, key, value)
             IN  Result(set.cache, FALSE, set.ret, got.calls \cup set.calls)

(* JSON get-or-populate that takes an unparseable entry as a hit. *)
GetCachedValueOrCacheNewValueJson_RawOnParseFail(c, r, key, value) ==
    LET got == GetCachedValueJson(c, r, key, TRUE)
    IN  IF got.found THEN Result(got.cache, TRUE, got.ret, got.calls)
        ELSE LET set == SetCachedValueJson(got.cache, r, key, value)
             IN  Result(set.cache, FALSE, set.ret, got.calls \cup set.calls)

GetCachedValueOrCacheNewValueJson(c, r, key, value) ==
    LET got == GetCachedValueJson(c, r, key, FALSE)
    IN  IF got.found THEN Result(got.cache, TRUE, got.ret, got.calls)
        ELSE LET set == SetCachedValueJson(got.cache, r, key, value)
             IN  Result(set.cache, FALSE, set.ret, got.calls \cup set.calls)

(* RemoveKey that, like the accessors, does nothing on a disabled instance. *)
RemoveKey_SkipsWhenDisabled(c, r, key) ==
    IF _DoNotCache[r] THEN Result(c, FALSE, Null, {})
    ELSE Result(DeleteLocalCachedValue(c, _Name[r], key), FALSE, Null,
                {<<"DeleteLocalCachedValue", _Name[r]>>})

RemoveKey(c, r, key) ==
    Result(DeleteLocalCachedValue(c, _Name[r], key), FALSE, Null,
           {<<"DeleteLocalCachedValue", _Name[r]>>})

(* Clear that, like the accessors, does nothing on a disabled instance. *)
Clear_SkipsWhenDisabled(c, r) ==
    IF _DoNotCache[r] THEN Result(c, FALSE, Null, {})
    ELSE Result(ClearLocalCacheStore(c, _Name[r]), FALSE, Null,
                {<<"ClearLocalCacheStore", _Name[r]>>})

Clear(c, r) ==
    Result(ClearLocalCacheStore(c, _Name[r]), FALSE, Null,
           {<<"ClearLocalCacheStore", _Name[r]>>})

(* IsCacheClear that, like the accessors, skips the store when disabled. *)
IsCacheClear_SkipsWhenDisabled(c, r) ==
    IF _DoNotCache[r] THEN Result(c, TRUE, Null, {})
    ELSE Result(c, GetLocalCacheSize(c, _Name[r]) = 0, Null,
                {<<"GetLocalCacheSize", _Name[r]>>})

IsCacheClear(c, r) ==
    Result(c, GetLocalCacheSize(c, _Name[r]) = 0, Null, {<<"GetLocalCacheSize", _Name[r]>>})

GetAllCachedValues(c, r) ==
    Result(c, FALSE, Null, {<<"GetAllLocalCacheValues", _Name[r]>>})

(* The callback without its size test. *)
ResetTick_AlwaysClears(c, r) ==
    Result(ClearLocalCacheStore(c, _Name[r]), FALSE, Null,
           {<<"GetLocalCacheSize", _Name[r]>>, <<"ClearLocalCacheStore", _Name[r]>>})

(* The callback with its size test off by one. *)
ResetTick_SkipsSingleEntry(c, r) ==
    LET cacheStoreSize == GetLocalCacheSize(c, _Name[r])
    IN  IF cacheStoreSize > 1
        THEN Result(ClearLocalCacheStore(c, _Name[r]), FALSE, Null,
                    {<<"GetLocalCacheSize", _Name[r]>>, <<"ClearLocalCacheStore", _Name[r]>>})
        ELSE Result(c, FALSE, Null, {<<"GetLocalCacheSize", _Name[r]>>})

(* The callback clearing every registered store, not only its own. *)
ResetTick_ClearsEveryStore(c, r) ==
    LET cacheStoreSize == GetLocalCacheSize(c, _Name[r])
    IN  IF cacheStoreSize > 0
        THEN Result([n \in DOMAIN c |-> EmptyStore], FALSE, Null,
                    {<<"GetLocalCacheSize", _Name[r]>>, <<"ClearLocalCacheStore", _Name[r]>>})
        ELSE Result(c, FALSE, Null, {<<"GetLocalCacheSize", _Name[r]>>})

(* The callback handed to setInterval. *)
ResetTick(c, r) ==
    LET cacheStoreSize == GetLocalCacheSize(c, _Name[r])
    IN  IF cacheStoreSize > 0
        THEN Result(ClearLocalCacheStore(c, _Name[r]), FALSE, Null,
                    {<<"GetLocalCacheSize", _Name[r]>>, <<"ClearLocalCacheStore", _Name[r]>>})
        ELSE Result(c, FALSE, Null, {<<"GetLocalCacheSize", _Name[r]>>})

(* What KillReset leaves of the handle: unref() keeps the timer scheduled  *)
(* and only stops it from holding the process open.                        *)
KillResetHandle(handle) == IF handle # "undefined" THEN "unref" ELSE handle

(* Registration without the WasRegisteredForCacheReset latch. *)
RegisterResetRoundRobin_NoLatch(r, pol) ==
    LET cacheRefreshInterval == CalculateResetMsForStatePolicy(pol)
    IN  /\ _DoNotCache' = [_DoNotCache EXCEPT ![r] = (cacheRefreshInterval = Null)]
        /\ WasRegisteredForCacheReset' = [WasRegisteredForCacheReset EXCEPT ![r] = TRUE]
        /\ IF cacheRefreshInterval # Null /\ cacheRefreshInterval # Num(-1)
           THEN /\ _CacheRefreshIntervalTimer' =
                       [_CacheRefreshIntervalTimer EXCEPT ![r] = "ref"]
                /\ timers' = [timers EXCEPT ![r] = @ + 1]
           ELSE UNCHANGED <<_CacheRefreshIntervalTimer, timers>>

(* Registration that hands the never sentinel to setInterval too. *)
RegisterResetRoundRobin_SchedulesNever(r, pol) ==
    IF ~WasRegisteredForCacheReset[r]
    THEN LET cacheRefreshInterval == CalculateResetMsForStatePolicy(pol)
         IN  /\ _DoNotCache' = [_DoNotCache EXCEPT ![r] = (cacheRefreshInterval = Null)]
             /\ WasRegisteredForCacheReset' = [WasRegisteredForCacheReset EXCEPT ![r] = TRUE]
             /\ IF cacheRefreshInterval # Null
                THEN /\ _CacheRefreshIntervalTimer' =
                            [_CacheRefreshIntervalTimer EXCEPT ![r] = "ref"]
                     /\ timers' = [timers EXCEPT ![r] = @ + 1]
                ELSE UNCHANGED <<_CacheRefreshIntervalTimer, timers>>
    ELSE UNCHANGED <<_DoNotCache, WasRegisteredForCacheReset, _CacheRefreshIntervalTimer, timers>>

RegisterResetRoundRobin(r, pol) ==
    IF ~WasRegisteredForCacheReset[r]
    THEN LET cacheRefreshInterval == CalculateResetMsForStatePolicy(pol)
         IN  /\ _DoNotCache' = [_DoNotCache EXCEPT ![r] = (cacheRefreshInterval = Null)]
             /\ WasRegisteredForCacheReset' = [WasRegisteredForCacheReset EXCEPT ![r] = TRUE]
             /\ IF cacheRefreshInterval # Null /\ cacheRefreshInterval # Num(-1)
                THEN /\ _CacheRefreshIntervalTimer' =
                            [_CacheRefreshIntervalTimer EXCEPT ![r] = "ref"]
                     /\ timers' = [timers EXCEPT ![r] = @ + 1]
                ELSE UNCHANGED <<_CacheRefreshIntervalTimer, timers>>
    ELSE UNCHANGED <<_DoNotCache, WasRegisteredForCacheReset, _CacheRefreshIntervalTimer, timers>>

(***************************************************************************)
(* Actions: one per call of a public member, one for a call of the private *)
(* registration on an existing instance, one for a firing of the timer.    *)
(***************************************************************************)
Returns(op, r, key, arg, flag, res) ==
    /\ cache' = res.cache
    /\ last' = Call(op, r, key, arg, flag, "", res.found, res.ret, res.calls, EmptyStore)
    /\ UNCHANGED repoVars

Construct(r, cacheStoreName, pol) ==
    /\ ~constructed[r]
    /\ \A q \in Repos : q < r => constructed[q]
    /\ constructed' = [constructed EXCEPT ![r] = TRUE]
    /\ _Name' = [_Name EXCEPT ![r] = cacheStoreName]
    /\ policy' = [policy EXCEPT ![r] = pol]
    /\ cache' = RegisterLocalCacheStore(cache, cacheStoreName)
    /\ RegisterResetRoundRobin(r, pol)
    /\ last' = Call("constructor", r, "", Null, FALSE, pol, FALSE,
                    CalculateResetMsForStatePolicy(pol),
                    {<<"RegisterLocalCacheStore", cacheStoreName>>}, EmptyStore)
    /\ UNCHANGED running

RegisterAgain(r, pol) ==
    /\ constructed[r]
    /\ RegisterResetRoundRobin(r, pol)
    /\ last' = Call("RegisterResetRoundRobin", r, "", Null, FALSE, pol, FALSE, Null,
                    {}, EmptyStore)
    /\ UNCHANGED <<cache, constructed, _Name, policy, running>>

KillReset(r) ==
    /\ constructed[r]
    /\ _CacheRefreshIntervalTimer' =
           [_CacheRefreshIntervalTimer EXCEPT ![r] = KillResetHandle(@)]
    /\ last' = Call("KillReset", r, "", Null, FALSE, "", FALSE, Null, {}, EmptyStore)
    /\ UNCHANGED <<cache, constructed, _Name, _DoNotCache, WasRegisteredForCacheReset,
                   timers, policy, running>>

Tick(r) ==
    /\ timers[r] > 0
    /\ LET res == ResetTick(cache, r)
       IN  /\ cache' = res.cache
           /\ last' = Call("Tick", r, "", Null, FALSE, "", FALSE, Null, res.calls,
                           EmptyStore)
    /\ UNCHANGED repoVars

CallIsCacheClear(r) ==
    /\ constructed[r]
    /\ Returns("IsCacheClear", r, "", Null, FALSE, IsCacheClear(cache, r))

CallClear(r) ==
    /\ constructed[r]
    /\ Returns("Clear", r, "", Null, FALSE, Clear(cache, r))

CallGetAllCachedValues(r) ==
    /\ constructed[r]
    /\ cache' = GetAllCachedValues(cache, r).cache
    /\ last' = Call("GetAllCachedValues", r, "", Null, FALSE, "", FALSE, Null,
                    GetAllCachedValues(cache, r).calls,
                    GetAllLocalCacheValues(cache, _Name[r]))
    /\ UNCHANGED repoVars

CallGetCachedValue(r, key) ==
    /\ constructed[r]
    /\ Returns("GetCachedValue", r, key, Null, FALSE, GetCachedValue(cache, r, key))

CallGetCachedValueJson(r, key, flag) ==
    /\ constructed[r]
    /\ Returns("GetCachedValueJson", r, key, Null, flag,
               GetCachedValueJson(cache, r, key, flag))

CallGetCachedValueNumber(r, key, flag) ==
    /\ constructed[r]
    /\ Returns("GetCachedValueNumber", r, key, Null, flag,
               GetCachedValueNumber(cache, r, key, flag))

CallSetCachedValue(r, key, value) ==
    /\ constructed[r]
    /\ Returns("SetCachedValue", r, key, value, FALSE, SetCachedValue(cache, r, key, value))

CallSetCachedValueJson(r, key, value) ==
    /\ constructed[r]
    /\ Returns("SetCachedValueJson", r, key, value, FALSE,
               SetCachedValueJson(cache, r, key, value))

CallSetCachedValueNumber(r, key, value) ==
    /\ constructed[r]
    /\ Returns("SetCachedValueNumber", r, key, value, FALSE,
               SetCachedValueNumber(cache, r, key, value))

CallGetCachedValueOrCacheNewValue(r, key, value) ==
    /\ constructed[r]
    /\ Returns("GetCachedValueOrCacheNewValue", r, key, value, FALSE,
               GetCachedValueOrCacheNewValue(cache, r, key, value))

CallGetCachedValueOrCacheNewValueJson(r, key, value) ==
    /\ constructed[r]
    /\ Returns("GetCachedValueOrCacheNewValueJson", r, key, value, FALSE,
               GetCachedValueOrCacheNewValueJson(cache, r, key, value))

CallRemoveKey(r, key) ==
    /\ constructed[r]
    /\ Returns("RemoveKey", r, key, Null, FALSE, RemoveKey(cache, r, key))

Next ==
    \/ \E r \in Repos, n \in Names, p \in PolicyInputs : Construct(r, n, p)
    \/ \E r \in Repos, p \in PolicyInputs : RegisterAgain(r, p)
    \/ \E r \in Repos : KillReset(r)
    \/ \E r \in Repos : Tick(r)
    \/ \E r \in Repos : CallIsCacheClear(r)
    \/ \E r \in Repos : CallClear(r)
    \/ \E r \in Repos : CallGetAllCachedValues(r)
    \/ \E r \in Repos, k \in Keys : CallGetCachedValue(r, k)
    \/ \E r \in Repos, k \in Keys, f \in BOOLEAN : CallGetCachedValueJson(r, k, f)
    \/ \E r \in Repos, k \in Keys, f \in BOOLEAN : CallGetCachedValueNumber(r, k, f)
    \/ \E r \in Repos, k \in Keys, v \in StringInputs : CallSetCachedValue(r, k, Str(v))
    \/ \E r \in Repos, k \in Keys, v \in JsonInputs : CallSetCachedValueJson(r, k, v)
    \/ \E r \in Repos, k \in Keys, v \in NumberInputs : CallSetCachedValueNumber(r, k, Num(v))
    \/ \E r \in Repos, k \in Keys, v \in StringInputs :
           CallGetCachedValueOrCacheNewValue(r, k, Str(v))
    \/ \E r \in Repos, k \in Keys, v \in JsonInputs :
           CallGetCachedValueOrCacheNewValueJson(r, k, v)
    \/ \E r \in Repos, k \in Keys : CallRemoveKey(r, k)

Spec == Init /\ [][Next]_vars

(* A timer that still holds a reference keeps the process alive and goes   *)
(* on firing; one that was unref'd fires only while something else keeps   *)
(* the event loop running, so nothing is promised of it.                   *)
RefTick(r) == _CacheRefreshIntervalTimer[r] = "ref" /\ Tick(r)
FairSpec == Spec /\ \A r \in Repos : WF_vars(RefTick(r))

(***************************************************************************)
(* The members statement by statement.  The timer callback and             *)
(* GetCachedValueOrCacheNewValue each make two calls of LocalCacheHelper   *)
(* in a row; here each call is a step of its own, and running[r] holds the *)
(* activation between the two.  Neither body awaits or yields, so          *)
(* JavaScript runs it to its end before it starts any other callback or    *)
(* member: a new activation starts only when none is under way.            *)
(***************************************************************************)
instVars == <<constructed, _Name, _DoNotCache, WasRegisteredForCacheReset,
              _CacheRefreshIntervalTimer, timers, policy>>

(* Bodies that give way between their two calls. *)
RunToCompletion_Preemptive == TRUE

RunToCompletion == \A q \in Repos : running[q] = NoFrame

(* const cacheStoreSize = LocalCacheHelper.GetLocalCacheSize(this._Name) *)
TickSize(r) ==
    /\ RunToCompletion
    /\ timers[r] > 0
    /\ running[r] = NoFrame
    /\ running' = [running EXCEPT ![r] =
                       Frame("tick", "", Null, GetLocalCacheSize(cache, _Name[r]),
                             FALSE, Null)]
    /\ UNCHANGED <<cache, last, instVars>>

(* if (cacheStoreSize > 0) LocalCacheHelper.ClearLocalCacheStore(this._Name) *)
TickClear(r) ==
    /\ running[r].pc = "tick"
    /\ IF running[r].cacheStoreSize > 0
       THEN /\ cache' = ClearLocalCacheStore(cache, _Name[r])
            /\ last' = Call("Tick", r, "", Null, FALSE, "", FALSE, Null,
                            {<<"GetLocalCacheSize", _Name[r]>>,
                             <<"ClearLocalCacheStore", _Name[r]>>}, EmptyStore)
       ELSE /\ cache' = cache
            /\ last' = Call("Tick", r, "", Null, FALSE, "", FALSE, Null,
                            {<<"GetLocalCacheSize", _Name[r]>>}, EmptyStore)
    /\ running' = [running EXCEPT ![r] = NoFrame]
    /\ UNCHANGED instVars

(* let [presentInCache, cachedValue] = this.GetCachedValue(key) *)
PopulateRead(r, key, value) ==
    /\ RunToCompletion
    /\ constructed[r]
    /\ running[r] = NoFrame
    /\ LET got == GetCachedValue(cache, r, key)
       IN  running' = [running EXCEPT ![r] =
                          Frame("populate", key, value, 0, got.found, got.ret)]
    /\ UNCHANGED <<cache, last, instVars>>

(* if (presentInCache) return cachedValue; return this.SetCachedValue(key, value) *)
PopulateReturn(r) ==
    /\ running[r].pc = "populate"
    /\ LET f == running[r]
           read == GetCachedValue(cache, r, f.key).calls
           set == SetCachedValue(cache, r, f.key, f.value)
       IN  IF f.presentInCache
           THEN /\ cache' = cache
                /\ last' = Call("GetCachedValueOrCacheNewValue", r, f.key, f.value, FALSE,
                                "", TRUE, f.cachedValue, read, EmptyStore)
           ELSE /\ cache' = set.cache
                /\ last' = Call("GetCachedValueOrCacheNewValue", r, f.key, f.value, FALSE,
                                "", FALSE, set.ret, read \cup set.calls, EmptyStore)
    /\ running' = [running EXCEPT ![r] = NoFrame]
    /\ UNCHANGED instVars

StartConstruct(r, cacheStoreName, pol) ==
    /\ RunToCompletion
    /\ Construct(r, cacheStoreName, pol)

StartSetCachedValue(r, key, value) ==
    /\ RunToCompletion
    /\ CallSetCachedValue(r, key, value)

StartRemoveKey(r, key) ==
    /\ RunToCompletion
    /\ CallRemoveKey(r, key)

LoopNext ==
    \/ \E r \in Repos, n \in Names, p \in PolicyInputs : StartConstruct(r, n, p)
    \/ \E r \in Repos : TickSize(r)
    \/ \E r \in Repos : TickClear(r)
    \/ \E r \in Repos, k \in Keys, v \in StringInputs : PopulateRead(r, k, Str(v))
    \/ \E r \in Repos : PopulateReturn(r)
    \/ \E r \in Repos, k \in Keys, v \in StringInputs : StartSetCachedValue(r, k, Str(v))
    \/ \E r \in Repos, k \in Keys : StartRemoveKey(r, k)

LoopSpec == Init /\ [][LoopNext]_vars

(***************************************************************************)
(* The instances under every policy: constructors and later registrations  *)
(* are called with each member of CachePolicy and with a value outside it, *)
(* and the callers set and get one value.                                  *)
(***************************************************************************)
PolicyNext ==
    \/ \E r \in Repos, n \in Names, p \in CachePolicy : Construct(r, n, p)
    \/ \E r \in Repos, p \in CachePolicy : RegisterAgain(r, p)
    \/ \E r \in Repos : KillReset(r)
    \/ \E r \in Repos : Tick(r)
    \/ \E r \in Repos : CallSetCachedValue(r, KeyNames[1], Str(<<"a">>))
    \/ \E r \in Repos : CallGetCachedValue(r, KeyNames[1])

PolicySpec == Init /\ [][PolicyNext]_vars

(***************************************************************************)
(* The instances over two store names: every member is called, on one key, *)
(* by instances constructed with either name.                              *)
(***************************************************************************)
StoreNames == {"A", "B"}

NamedNext ==
    \/ \E r \in Repos, n \in StoreNames, p \in PolicyInputs : Construct(r, n, p)
    \/ \E r \in Repos, p \in PolicyInputs : RegisterAgain(r, p)
    \/ \E r \in Repos : KillReset(r)
    \/ \E r \in Repos : Tick(r)
    \/ \E r \in Repos : CallIsCacheClear(r)
    \/ \E r \in Repos : CallClear(r)
    \/ \E r \in Repos : CallGetAllCachedValues(r)
    \/ \E r \in Repos : CallGetCachedValue(r, KeyNames[1])
    \/ \E r \in Repos, f \in BOOLEAN : CallGetCachedValueJson(r, KeyNames[1], f)
    \/ \E r \in Repos, f \in BOOLEAN : CallGetCachedValueNumber(r, KeyNames[1], f)
    \/ \E r \in Repos, v \in StringInputs : CallSetCachedValue(r, KeyNames[1], Str(v))
    \/ \E r \in Repos, v \in JsonInputs : CallSetCachedValueJson(r, KeyNames[1], v)
    \/ \E r \in Repos, v \in NumberInputs : CallSetCachedValueNumber(r, KeyNames[1], Num(v))
    \/ \E r \in Repos, v \in StringInputs :
           CallGetCachedValueOrCacheNewValue(r, KeyNames[1], Str(v))
    \/ \E r \in Repos, v \in JsonInputs :
           CallGetCachedValueOrCacheNewValueJson(r, KeyNames[1], v)
    \/ \E r \in Repos : CallRemoveKey(r, KeyNames[1])

NamedSpec == Init /\ [][NamedNext]_vars

(***************************************************************************)
(* Properties.                                                             *)
(***************************************************************************)
StoreOf(r) == cache[_Name[r]]
StoreBefore(r) == last.before[_Name[r]]

(* The entries of the store named n the latest call found and did not      *)
(* leave as they were: removed, or holding another value afterwards.       *)
Lost(n) ==
    IF n \in DOMAIN last.before
    THEN {k \in DOMAIN last.before[n] :
             k \notin DOMAIN cache[n] \/ cache[n][k] # last.before[n][k]}
    ELSE {}

(* C1: once KillReset() of an instance built with a finite-interval policy *)
(* has returned, the timer of that instance never clears the store again,  *)
(* whatever was written since, and KillReset() itself leaves the entries   *)
(* of the store as they were.                                              *)
C1_KillResetStopsTicks ==
    /\ ~(/\ last.op = "Tick"
         /\ _CacheRefreshIntervalTimer[last.repo] = "unref"
         /\ cache # last.before)
    /\ (last.op = "KillReset" => cache = last.before)

(* C2, as stated: an instance constructed with a policy outside the        *)
(* enumeration is not disabled and starts no timer, and SetCachedValue     *)
(* followed by GetCachedValue stores and returns (true, v) as under        *)
(* NoReset.                                                                *)
C2_UnrecognizedIsNeverRefreshing ==
    \A r \in Repos :
        (constructed[r] /\ policy[r] \notin EnumeratedPolicies) =>
            /\ ~_DoNotCache[r]
            /\ timers[r] = 0
            /\ \A k \in Keys, v \in StringInputs :
                   LET set == SetCachedValue(cache, r, k, Str(v))
                       get == GetCachedValue(set.cache, r, k)
                   IN  set.ret = Str(v) /\ get.found /\ get.ret = Str(v)

(* C2, amended: an instance constructed with a policy outside the          *)
(* enumeration is disabled, exactly as under DoNotCache: no timer is       *)
(* started, SetCachedValue returns absent and stores nothing, and          *)
(* GetCachedValue returns (false, absent) whatever the store holds.        *)
C2_UnrecognizedIsDisabled ==
    \A r \in Repos :
        (constructed[r] /\ policy[r] \notin EnumeratedPolicies) =>
            /\ _DoNotCache[r]
            /\ timers[r] = 0
            /\ _CacheRefreshIntervalTimer[r] = "undefined"
            /\ \A k \in Keys, v \in StringInputs :
                   LET set == SetCachedValue(cache, r, k, Str(v))
                       get == GetCachedValue(set.cache, r, k)
                   IN  /\ set.ret = Null /\ set.cache = cache /\ set.calls = {}
                       /\ ~get.found /\ get.ret = Null
            /\ (last.repo = r /\ last.op \in {"SetCachedValue", "GetCachedValue"} =>
                   last.ret = Null /\ ~last.found /\ cache = last.before)

(* An instance built with an unrecognized policy was asked for a key that  *)
(* another instance has stored, and reported a miss.                       *)
C2_Witness ==
    /\ last.op = "GetCachedValue"
    /\ policy[last.repo] = "Unrecognized"
    /\ last.key \in DOMAIN StoreOf(last.repo)
    /\ ~last.found

(* C3: under the DoNotCache policy, whatever the named store holds, every  *)
(* Get returns (false, absent), every Set returns absent, both             *)
(* get-or-populate operations return absent, and none of them changes the  *)
(* store.                                                                  *)
C3_DoNotCacheAccessors ==
    (last.op \in AccessorOps /\ policy[last.repo] = "DoNotCache") =>
        /\ ~last.found
        /\ last.ret = Null
        /\ cache = last.before

(* A DoNotCache instance was asked to set a key of a store that another    *)
(* instance has filled.                                                    *)
C3_Witness ==
    /\ last.op = "SetCachedValue"
    /\ policy[last.repo] = "DoNotCache"
    /\ StoreOf(last.repo) # EmptyStore

(* C4, as stated: no public operation of a DoNotCache instance queries or  *)
(* changes the backing store, RemoveKey, Clear, GetAllCachedValues and     *)
(* IsCacheClear included.                                                  *)
C4_DoNotCacheNeverTouchesStore ==
    (/\ last.op \in AccessorOps \cup BulkOps \cup {"KillReset"}
     /\ policy[last.repo] = "DoNotCache") =>
        cache = last.before /\ last.calls = {}

(* C4, amended: the Get, Set and get-or-populate operations and KillReset  *)
(* of a DoNotCache instance never query or change the backing store;       *)
(* RemoveKey and Clear still delete from the named store, and              *)
(* GetAllCachedValues and IsCacheClear still read it.                      *)
C4_DoNotCacheAccessorsSkipStore ==
    (last.repo \in Repos /\ policy[last.repo] = "DoNotCache") =>
        LET n == _Name[last.repo]
        IN  /\ last.op \in AccessorOps \cup {"KillReset"} =>
                   cache = last.before /\ last.calls = {}
            /\ last.op = "RemoveKey" =>
                   /\ last.calls = {<<"DeleteLocalCachedValue", n>>}
                   /\ cache = DeleteLocalCachedValue(last.before, n, last.key)
            /\ last.op = "Clear" =>
                   /\ last.calls = {<<"ClearLocalCacheStore", n>>}
                   /\ cache = ClearLocalCacheStore(last.before, n)
            /\ last.op = "GetAllCachedValues" =>
                   /\ last.calls = {<<"GetAllLocalCacheValues", n>>}
                   /\ last.all = last.before[n]
                   /\ cache = last.before
            /\ last.op = "IsCacheClear" =>
                   /\ last.calls = {<<"GetLocalCacheSize", n>>}
                   /\ last.found = (last.before[n] = EmptyStore)
                   /\ cache = last.before

(* A DoNotCache instance removed a key that another instance had stored.   *)
C4_Witness ==
    /\ last.op = "RemoveKey"
    /\ policy[last.repo] = "DoNotCache"
    /\ last.key \in DOMAIN StoreBefore(last.repo)
    /\ last.key \notin DOMAIN StoreOf(last.repo)

(* C5: on an instance that is not disabled, SetCachedValue(k, v) returns v *)
(* and a GetCachedValue(k) issued right after it returns (true, v).        *)
C5_SetThenGet ==
    (last.op = "SetCachedValue" /\ ~_DoNotCache[last.repo]) =>
        /\ last.ret = last.arg
        /\ LET get == GetCachedValue(cache, last.repo, last.key)
           IN  get.found /\ get.ret = last.arg /\ get.cache = cache

(* SetCachedValue has just replaced another value of the key. *)
C5_Witness ==
    /\ last.op = "SetCachedValue"
    /\ ~_DoNotCache[last.repo]
    /\ last.key \in DOMAIN StoreBefore(last.repo)
    /\ StoreBefore(last.repo)[last.key] # last.arg.s
    /\ GetCachedValue(cache, last.repo, last.key).ret = last.arg

(* The calls that write the key they are given. *)
WritesOf(k) == IF last.key = k THEN SetOps \cup PopulateOps ELSE {}

(* C6, as stated: GetCachedValueOrCacheNewValue(k, v) on an absent key     *)
(* stores v and returns v, and a following call with another value returns *)
(* the stored value and leaves it, on any instance.                        *)
C6_GetOrPopulate ==
    last.op = "GetCachedValueOrCacheNewValue" =>
        IF last.key \in DOMAIN StoreBefore(last.repo)
        THEN /\ last.ret = Str(StoreBefore(last.repo)[last.key])
             /\ cache = last.before
        ELSE /\ last.key \in DOMAIN StoreOf(last.repo)
             /\ StoreOf(last.repo)[last.key] = last.arg.s
             /\ last.ret = last.arg

(* C6, amended: on an instance that is not disabled,                       *)
(* GetCachedValueOrCacheNewValue(k, v) on an absent key stores v under k   *)
(* and returns v; on a key that is present it returns the stored value and *)
(* leaves the store as it was, whatever value it was given; and a stored   *)
(* entry goes or changes only by a Clear, a reset tick, or a RemoveKey, a  *)
(* Set or a JSON get-or-populate of its key.                               *)
C6_GetOrPopulateWhenEnabled ==
    /\ (last.op = "GetCachedValueOrCacheNewValue" /\ ~_DoNotCache[last.repo]) =>
           IF last.key \in DOMAIN StoreBefore(last.repo)
           THEN /\ last.found
                /\ last.ret = Str(StoreBefore(last.repo)[last.key])
                /\ cache = last.before
           ELSE /\ ~last.found
                /\ last.key \in DOMAIN StoreOf(last.repo)
                /\ StoreOf(last.repo)[last.key] = last.arg.s
                /\ last.ret = last.arg
    /\ \A n \in Names : \A k \in Lost(n) :
           /\ _Name[last.repo] = n
           /\ \/ last.op \in {"Clear", "Tick"}
              \/ last.key = k /\ last.op \in {"RemoveKey", "GetCachedValueOrCacheNewValueJson"}
                                                 \cup SetOps

(* A second get-or-populate of a key, with another value than the stored   *)
(* one, has returned the stored value.                                     *)
C6_Witness ==
    /\ last.op = "GetCachedValueOrCacheNewValue"
    /\ ~_DoNotCache[last.repo]
    /\ last.key \in DOMAIN StoreBefore(last.repo)
    /\ StoreBefore(last.repo)[last.key] # last.arg.s
    /\ last.ret = Str(StoreOf(last.repo)[last.key])

(* C7, as stated: an instance built with NoReset never starts a timer, and *)
(* an entry of its store stays, with its value, until Clear() or           *)
(* RemoveKey() or an overwriting write of its key is called.               *)
C7_NoResetKeepsEntries ==
    \A r \in Repos :
        (constructed[r] /\ policy[r] = "NoReset") =>
            /\ timers[r] = 0
            /\ \A k \in Lost(_Name[r]) :
                   \/ last.op = "Clear"
                   \/ last.key = k /\ last.op \in {"RemoveKey"} \cup WritesOf(k)

(* C7, amended: an instance built with NoReset never starts a timer, and   *)
(* an entry of its store stays, with its value, until Clear() or           *)
(* RemoveKey() or an overwriting write of its key is called, or the reset  *)
(* tick of another instance constructed with the same store name clears    *)
(* the store.                                                              *)
C7_NoResetKeepsEntriesUnlessShared ==
    \A r \in Repos :
        (constructed[r] /\ policy[r] = "NoReset") =>
            /\ timers[r] = 0
            /\ _CacheRefreshIntervalTimer[r] = "undefined"
            /\ \A k \in Lost(_Name[r]) :
                   \/ last.op = "Clear"
                   \/ last.key = k /\ last.op \in {"RemoveKey"} \cup WritesOf(k)
                   \/ /\ last.op = "Tick"
                      /\ last.repo # r
                      /\ _Name[last.repo] = _Name[r]
                      /\ policy[last.repo] \in FinitePolicies

(* The tick of another instance has emptied the store of a NoReset         *)
(* instance.                                                               *)
C7_Witness ==
    \E r \in Repos :
        /\ constructed[r]
        /\ policy[r] = "NoReset"
        /\ last.op = "Tick"
        /\ last.repo # r
        /\ StoreBefore(r) # EmptyStore
        /\ StoreOf(r) = EmptyStore

(* C8: an instance owns at most one reset timer over its lifetime: its     *)
(* construction starts exactly one when the policy resolves to a finite    *)
(* interval and none for DoNotCache or NoReset, and calling the            *)
(* registration again starts no other.                                     *)
C8_AtMostOneTimer ==
    \A r \in Repos :
        /\ timers[r] <= 1
        /\ ~constructed[r] => timers[r] = 0
        /\ (constructed[r] /\ policy[r] \in FinitePolicies) =>
               timers[r] = 1 /\ _CacheRefreshIntervalTimer[r] # "undefined"
        /\ (constructed[r] /\ policy[r] \in {"DoNotCache", "NoReset"}) =>
               timers[r] = 0 /\ _CacheRefreshIntervalTimer[r] = "undefined"

(* The registration was called again, with a finite-interval policy, on an *)
(* instance that holds its timer.                                          *)
C8_Witness ==
    /\ last.op = "RegisterResetRoundRobin"
    /\ last.policy \in FinitePolicies
    /\ policy[last.repo] \in FinitePolicies
    /\ timers[last.repo] = 1

(* C9: a reset tick calls the collaborator's clear exactly when the size   *)
(* of the named store is greater than zero at the tick: then every entry   *)
(* is removed, and on an empty store clear is not called.                  *)
C9_TickClearsIffNonEmpty ==
    last.op = "Tick" =>
        LET n == _Name[last.repo]
            size == GetLocalCacheSize(last.before, n)
        IN  /\ (<<"ClearLocalCacheStore", n>> \in last.calls) <=> (size > 0)
            /\ size > 0 => cache[n] = EmptyStore
            /\ size = 0 => cache = last.before

(* A tick has found two entries and removed them. *)
C9_Witness ==
    /\ last.op = "Tick"
    /\ GetLocalCacheSize(last.before, _Name[last.repo]) = 2
    /\ StoreOf(last.repo) = EmptyStore

(* C10: while the timer of a finite-interval instance has not been         *)
(* released, a store that is not empty is eventually empty.                *)
C10_NonEmptyStoreIsEventuallyCleared ==
    \A r \in Repos :
        (_CacheRefreshIntervalTimer[r] = "ref" /\ StoreOf(r) # EmptyStore)
            ~> (_CacheRefreshIntervalTimer[r] # "ref" \/ StoreOf(r) = EmptyStore)

(* The tick of a StaleAfterFiveSeconds instance whose timer was not        *)
(* released has emptied the store.                                         *)
C10_Witness ==
    /\ last.op = "Tick"
    /\ policy[last.repo] = "StaleAfterFiveSeconds"
    /\ _CacheRefreshIntervalTimer[last.repo] = "ref"
    /\ StoreBefore(last.repo) # EmptyStore
    /\ StoreOf(last.repo) = EmptyStore

(* The instances constructed with the store name of r. *)
SameName(r) == {q \in Repos : constructed[q] /\ _Name[q] = _Name[r]}

(* C11: IsCacheClear is true exactly when the named store holds no entry:  *)
(* it is true of a store that was just registered, false after a write     *)
(* that took effect, and true again after Clear(), which leaves the named  *)
(* store without entries.                                                  *)
C11_IsCacheClearReflectsSize ==
    /\ \A r \in Repos :
           constructed[r] => (IsCacheClear(cache, r).found <=> StoreOf(r) = EmptyStore)
    /\ last.op = "IsCacheClear" =>
           /\ last.found <=> StoreOf(last.repo) = EmptyStore
           /\ cache = last.before
    /\ (last.op = "constructor" /\ _Name[last.repo] \notin DOMAIN last.before) =>
           IsCacheClear(cache, last.repo).found
    /\ (last.op \in SetOps /\ ~_DoNotCache[last.repo]) =>
           \A q \in SameName(last.repo) : ~IsCacheClear(cache, q).found
    /\ last.op = "Clear" =>
           /\ StoreOf(last.repo) = EmptyStore
           /\ \A q \in SameName(last.repo) : IsCacheClear(cache, q).found

(* IsCacheClear of a disabled instance has reported the entries another    *)
(* instance wrote.                                                         *)
C11_Witness ==
    /\ last.op = "IsCacheClear"
    /\ _DoNotCache[last.repo]
    /\ ~last.found
    /\ StoreOf(last.repo) # EmptyStore

(* C12: on an instance that is not disabled, for a key whose raw string    *)
(* does not parse as JSON, GetCachedValueJson(k, true) returns the pair    *)
(* (true, raw string) and GetCachedValueJson(k, false) returns (false,     *)
(* absent); the store is left as it was.                                   *)
C12_ParseFailureFallback ==
    (/\ last.op = "GetCachedValueJson"
     /\ ~_DoNotCache[last.repo]
     /\ last.key \in DOMAIN StoreBefore(last.repo)
     /\ ~JSONParses(StoreBefore(last.repo)[last.key])) =>
        /\ last.flag => last.found /\ last.ret = Str(StoreBefore(last.repo)[last.key])
        /\ ~last.flag => ~last.found /\ last.ret = Null
        /\ cache = last.before

(* GetCachedValueJson(k, true) has returned the raw string a of a key. *)
C12_Witness ==
    /\ last.op = "GetCachedValueJson"
    /\ last.flag
    /\ last.found
    /\ last.ret = Str(<<"a">>)
    /\ StoreOf(last.repo)[last.key] = <<"a">>

(* JSON values beyond the ones the callers of the model store. *)
JsonValues ==
    {Null, Num(0), Num(10), Num(-1), Str(<<>>), Str(<<"1">>), Str(<<"-">>),
     Str(<<"n", "u", "l", "l">>)}

(* C13, as stated: SetCachedValueJson(k, obj) returns obj, and a           *)
(* GetCachedValueJson(k) issued right after it returns (true, obj), on any *)
(* instance.                                                               *)
C13_JsonRoundTrip ==
    last.op = "SetCachedValueJson" =>
        /\ last.ret = last.arg
        /\ LET get == GetCachedValueJson(cache, last.repo, last.key, FALSE)
           IN  get.found /\ get.ret = last.arg

(* C13, amended: on an instance that is not disabled,                      *)
(* SetCachedValueJson(k, obj) returns obj and not its serialized string,   *)
(* and a GetCachedValueJson(k) issued right after it returns (true, obj),  *)
(* for every JSON value obj; on a disabled instance it returns absent.     *)
C13_JsonRoundTripWhenEnabled ==
    /\ (last.op = "SetCachedValueJson" /\ ~_DoNotCache[last.repo]) =>
           /\ last.ret = last.arg
           /\ StoreOf(last.repo)[last.key] = JSONStringify(last.arg)
           /\ LET get == GetCachedValueJson(cache, last.repo, last.key, FALSE)
              IN  get.found /\ get.ret = last.arg /\ get.cache = cache
    /\ (last.op = "SetCachedValueJson" /\ _DoNotCache[last.repo]) =>
           last.ret = Null /\ cache = last.before
    /\ \A r \in Repos : (constructed[r] /\ ~_DoNotCache[r]) =>
           \A v \in JsonValues :
               LET set == SetCachedValueJson(cache, r, KeyNames[1], v)
                   get == GetCachedValueJson(set.cache, r, KeyNames[1], FALSE)
               IN  set.ret = v /\ get.found /\ get.ret = v

(* SetCachedValueJson has stored the string a in its quoted form, and      *)
(* GetCachedValueJson gives the string back.                               *)
C13_Witness ==
    /\ last.op = "SetCachedValueJson"
    /\ ~_DoNotCache[last.repo]
    /\ last.arg = Str(<<"a">>)
    /\ StoreOf(last.repo)[last.key] = <<Quote, "a", Quote>>
    /\ GetCachedValueJson(cache, last.repo, last.key, FALSE).ret = Str(<<"a">>)

(* C15: RemoveKey(k) removes k from the named store whether or not the     *)
(* instance is disabled, leaves every other key of the store with its      *)
(* value, and leaves the store as it was when k is absent.                 *)
C15_RemoveKeyFrame ==
    last.op = "RemoveKey" =>
        /\ last.key \notin DOMAIN StoreOf(last.repo)
        /\ DOMAIN StoreOf(last.repo) = DOMAIN StoreBefore(last.repo) \ {last.key}
        /\ \A k \in DOMAIN StoreOf(last.repo) :
               StoreOf(last.repo)[k] = StoreBefore(last.repo)[k]
        /\ last.key \notin DOMAIN StoreBefore(last.repo) => cache = last.before
        /\ last.ret = Null

(* A disabled instance has removed one of the two keys of its store. *)
C15_Witness ==
    /\ last.op = "RemoveKey"
    /\ _DoNotCache[last.repo]
    /\ Cardinality(DOMAIN StoreBefore(last.repo)) = 2
    /\ Cardinality(DOMAIN StoreOf(last.repo)) = 1

(* C19: on an instance that is not disabled,                               *)
(* GetCachedValueOrCacheNewValueJson(k, value) writes the entry of k       *)
(* exactly when k is absent or its raw string does not parse as JSON: the  *)
(* serialized value then replaces the entry and value is returned; when k  *)
(* holds a string that parses, the store is left as it was and the parsed  *)
(* value is returned.                                                      *)
C19_JsonPopulateReplacesUnparseable ==
    (last.op = "GetCachedValueOrCacheNewValueJson" /\ ~_DoNotCache[last.repo]) =>
        LET n == _Name[last.repo]
            present == last.key \in DOMAIN StoreBefore(last.repo)
        IN  IF present /\ JSONParses(StoreBefore(last.repo)[last.key])
            THEN /\ last.found
                 /\ last.ret = JSONParse(StoreBefore(last.repo)[last.key])
                 /\ cache = last.before
                 /\ <<"SetLocalCachedValue", n>> \notin last.calls
            ELSE /\ ~last.found
                 /\ last.ret = last.arg
                 /\ StoreOf(last.repo)[last.key] = JSONStringify(last.arg)
                 /\ cache = SetLocalCachedValue(last.before, n, last.key,
                                                JSONStringify(last.arg))
                 /\ <<"SetLocalCachedValue", n>> \in last.calls

(* The raw string a of a key, which does not parse, has been replaced by   *)
(* the serialized value of a JSON get-or-populate.                         *)
C19_Witness ==
    /\ last.op = "GetCachedValueOrCacheNewValueJson"
    /\ ~_DoNotCache[last.repo]
    /\ last.key \in DOMAIN StoreBefore(last.repo)
    /\ StoreBefore(last.repo)[last.key] = <<"a">>
    /\ StoreOf(last.repo)[last.key] = JSONStringify(last.arg)
    /\ last.ret = last.arg

(* The interval of the specification's table for each policy, by the name  *)
(* the enumeration gives the policy.                                       *)
TableInterval(p) ==
    CASE p = "DoNotCache" -> Null
      [] p = "NoReset" -> Num(-1)
      [] p = "StaleAfterFiveSeconds" -> Num(5 * 1000)
      [] p = "StaleAfterTenSeconds" -> Num(10 * 1000)
      [] p = "SateAfterThirtySeconds" -> Num(30 * 1000)
      [] p = "StaleAfterOneMinute" -> Num(60 * 1000)
      [] p = "StaleAfterTwoMinutes" -> Num(2 * 60 * 1000)
      [] p = "StaleAfterFiveMinutes" -> Num(5 * 60 * 1000)
      [] p = "StaleAfterTenMinutes" -> Num(10 * 60 * 1000)
      [] p = "StaleAfterFifteenMinutes" -> Num(15 * 60 * 1000)
      [] p = "StateAfterThirtyMinutes" -> Num(30 * 60 * 1000)
      [] p = "StaleAfterOneHour" -> Num(60 * 60 * 1000)

(* C14: the constructor resolves every enumerated policy to the interval   *)
(* of the table (DoNotCache to the disabled sentinel, NoReset to the never *)
(* sentinel, the ten others to 5000 ... 3600000 ms); an instance is        *)
(* disabled exactly when the resolved value is the disabled sentinel, and  *)
(* no later step, a repeated registration with another policy included,    *)
(* changes that.                                                           *)
C14_PolicyTable ==
    /\ [](/\ (last.op = "constructor" /\ last.policy \in EnumeratedPolicies) =>
                 /\ last.ret = TableInterval(last.policy)
                 /\ _DoNotCache[last.repo] = (last.policy = "DoNotCache")
                 /\ timers[last.repo] = IF last.policy \in FinitePolicies THEN 1 ELSE 0
          /\ \A r \in Repos : constructed[r] =>
                 _DoNotCache[r] = (CalculateResetMsForStatePolicy(policy[r]) = Null))
    /\ [][\A r \in Repos : constructed[r] => _DoNotCache'[r] = _DoNotCache[r]]_vars

(* The registration was called again with DoNotCache on an instance that   *)
(* was constructed with StateAfterThirtyMinutes, and left it enabled.      *)
C14_Witness ==
    /\ last.op = "RegisterResetRoundRobin"
    /\ last.policy = "DoNotCache"
    /\ policy[last.repo] = "StateAfterThirtyMinutes"
    /\ ~_DoNotCache[last.repo]
    /\ timers[last.repo] = 1

(* C18: instances constructed with one store name share one store, with no *)
(* coordination: the value SetCachedValue of one instance stored, in place *)
(* of whatever any instance had stored under the key, is what              *)
(* GetCachedValue of every other instance of the name that is not disabled *)
(* returns, and a reset tick that finds entries, or a Clear(), of one      *)
(* instance leaves the store of every instance of the name empty, whatever *)
(* the policies of the instances; instances of different names share       *)
(* nothing.                                                                *)
C18_SameNameSharesStore ==
    /\ (last.op = "SetCachedValue" /\ ~_DoNotCache[last.repo]) =>
           \A q \in Repos :
               (constructed[q] /\ ~_DoNotCache[q]) =>
                   LET get == GetCachedValue(cache, q, last.key)
                       was == GetCachedValue(last.before, q, last.key)
                   IN  IF _Name[q] = _Name[last.repo]
                       THEN get.found /\ get.ret = last.arg
                       ELSE get.found = was.found /\ get.ret = was.ret
    /\ (last.op \in {"Tick", "Clear"}) =>
           \A q \in SameName(last.repo) :
               /\ StoreOf(q) = EmptyStore
               /\ \A k \in Keys : ~GetCachedValue(cache, q, k).found

(* The second instance has replaced the value the store held, and          *)
(* GetCachedValue of the first instance, of the same name, returns the new *)
(* value.                                                                  *)
C18_Witness ==
    /\ last.op = "SetCachedValue"
    /\ last.repo = 2
    /\ _Name[1] = _Name[2]
    /\ ~_DoNotCache[1] /\ ~_DoNotCache[2]
    /\ last.key \in DOMAIN StoreBefore(2)
    /\ StoreBefore(2)[last.key] # last.arg.s
    /\ GetCachedValue(cache, 1, last.key).ret = last.arg

(* C20: every operation of an instance, its reset tick included, passes    *)
(* its own store name to every call of the collaborator and leaves the     *)
(* store of every other name as it was; no operation removes a store from  *)
(* the registry, and the name of an instance never changes.                *)
C20_OnlyOwnPartition ==
    /\ [](last.repo \in Repos =>
              /\ \A call \in last.calls : call[2] = _Name[last.repo]
              /\ DOMAIN last.before \subseteq DOMAIN cache
              /\ \A n \in DOMAIN last.before :
                     n # _Name[last.repo] => cache[n] = last.before[n]
              /\ _Name[last.repo] \in DOMAIN cache)
    /\ [][\A r \in Repos : constructed[r] => _Name'[r] = _Name[r]]_vars

(* The tick of an instance named A has emptied the store A and left the    *)
(* entries of the store B.                                                 *)
C20_Witness ==
    /\ last.op = "Tick"
    /\ _Name[last.repo] = "A"
    /\ last.before["A"] # EmptyStore
    /\ cache["A"] = EmptyStore
    /\ "B" \in DOMAIN cache
    /\ cache["B"] # EmptyStore

(* C16, as stated: between the size check of a reset tick and its clear a  *)
(* SetCachedValue of an instance of the store can take effect.             *)
C16_SetBetweenCheckAndClear ==
    \A r \in Repos :
        running[r].pc = "tick" =>
            ENABLED (\E q \in SameName(r), k \in Keys, v \in StringInputs :
                         StartSetCachedValue(q, k, Str(v)))

(* C16, amended: the size check of a reset tick and its clear are one      *)
(* step with respect to writers: while a tick is between them no           *)
(* SetCachedValue can take effect and the store is as the size check       *)
(* found it, so a tick clears exactly when the store it clears holds       *)
(* entries, and a write is removed by a tick only if it was made before    *)
(* the size check.                                                         *)
C16_TickRunsToCompletion ==
    /\ \A r \in Repos :
           running[r].pc = "tick" =>
               /\ ~ENABLED (\E q \in Repos, k \in Keys, v \in StringInputs :
                                StartSetCachedValue(q, k, Str(v)))
               /\ running[r].cacheStoreSize = GetLocalCacheSize(cache, _Name[r])
    /\ last.op = "Tick" =>
           /\ (<<"ClearLocalCacheStore", _Name[last.repo]>> \in last.calls)
                  <=> StoreBefore(last.repo) # EmptyStore
           /\ StoreOf(last.repo) = EmptyStore

(* A SetCachedValue has returned and the size check of a tick has counted  *)
(* its entry; the clear is still to come.                                  *)
C16_Witness ==
    /\ last.op = "SetCachedValue"
    /\ \E r \in SameName(last.repo) :
           /\ running[r].pc = "tick"
           /\ running[r].cacheStoreSize > 0
           /\ last.key \in DOMAIN StoreOf(r)

(* C17, as stated: while one caller of GetCachedValueOrCacheNewValue has   *)
(* read a miss and not yet written, another caller can read the same miss. *)
C17_BothCallersMiss ==
    \A r \in Repos :
        (running[r].pc = "populate" /\ ~_DoNotCache[r] /\ ~running[r].presentInCache) =>
            ENABLED (\E q \in SameName(r) \ {r}, v \in StringInputs :
                         PopulateRead(q, running[r].key, Str(v)))

(* C17, amended: GetCachedValueOrCacheNewValue is one step with respect to *)
(* other callers: at most one caller is between its read and its write,    *)
(* no other read starts meanwhile and what it read still holds, so it      *)
(* writes only a key that is absent and the value it returns is the value  *)
(* the store holds for the key when it returns.                            *)
C17_GetOrPopulateRunsToCompletion ==
    /\ \A r \in Repos :
           running[r].pc = "populate" =>
               /\ \A q \in Repos \ {r} : running[q] = NoFrame
               /\ ~ENABLED (\E q \in Repos, k \in Keys, v \in StringInputs :
                                PopulateRead(q, k, Str(v)))
               /\ ~_DoNotCache[r] =>
                      running[r].presentInCache = (running[r].key \in DOMAIN StoreOf(r))
    /\ (last.op = "GetCachedValueOrCacheNewValue" /\ ~_DoNotCache[last.repo]) =>
           /\ last.found = (last.key \in DOMAIN StoreBefore(last.repo))
           /\ last.key \in DOMAIN StoreOf(last.repo)
           /\ last.ret = Str(StoreOf(last.repo)[last.key])

(* The first instance has read a miss and not yet written, while a second  *)
(* instance of the same store, not disabled either, is constructed.        *)
C17_Witness ==
    /\ running[1].pc = "populate"
    /\ ~running[1].presentInCache
    /\ ~_DoNotCache[1]
    /\ constructed[2]
    /\ ~_DoNotCache[2]
    /\ _Name[1] = _Name[2]

====
